---- MODULE Spec2Model ----
(***************************************************************************)
(* A model of the two-level set-associative cache simulator:               *)
(*   src/src/cache/block.rs   Block                                        *)
(*   src/src/cache/cache.rs   Cache (new, read, write, install,            *)
(*                            update_lru, set_is_full, evict_lru_block)     *)
(*   src/src/statistics.rs    Statistics                                   *)
(*   src/src/main.rs          main: the per-trace-line controller          *)
(* One action, Access, is the whole body of main's loop for one trace      *)
(* line.  Addresses are kept below 2^31 (TLC's integers are 32-bit signed). *)
(***************************************************************************)
EXTENDS Integers, Sequences, FiniteSets, TLC

VARIABLES
    args,          \* index of the command line configuration (Args)
    l1,            \* the L1 Cache
    l2,            \* the L2 Cache (cache_size = 0: absent)
    stats,         \* Statistics
    panic,         \* "" while the run is alive, else the panic that aborted it
    reported,      \* how many times the cache dump and statistics report were printed
    trace,         \* history: the trace lines processed so far, with their decoding
    calls,         \* history: the Cache calls made while processing the last line
    decodes,       \* history: the address decodings made while processing the last line
    stats_pre,     \* history: the Statistics before the last line
    order_pre,     \* oracle: per level and set, tags by recency (oldest first) before the last line
    order,         \* oracle: the same after the last line
    resident_pre,  \* oracle: per L1 set, tags installed and not evicted, before the last line
    resident       \* oracle: the same after the last line

vars == <<args, l1, l2, stats, panic, reported, trace, calls, decodes, stats_pre,
          order_pre, order, resident_pre, resident>>

-----------------------------------------------------------------------------
(* Bounds and inputs *)

MaxTrace == 4

READ == "r"
WRITE == "w"
HIT == "HIT"
MISS == "MISS"

\* Command line configurations and, for each, the addresses its trace draws from.
Configs == <<
    [block_size |-> 32, l1_size |-> 1024, l1_assoc |-> 2, l2_size |-> 0, l2_assoc |-> 0,
     addrs |-> {0, 32, 1024}],
    [block_size |-> 4, l1_size |-> 24, l1_assoc |-> 3, l2_size |-> 0, l2_assoc |-> 0,
     addrs |-> {0, 8, 16, 2147483640}],
    [block_size |-> 4, l1_size |-> 8, l1_assoc |-> 1, l2_size |-> 8, l2_assoc |-> 2,
     addrs |-> {0, 4, 8, 12}],
    [block_size |-> 4, l1_size |-> 8, l1_assoc |-> 2, l2_size |-> 0, l2_assoc |-> 0,
     addrs |-> {0, 8}],
    [block_size |-> 4, l1_size |-> 8, l1_assoc |-> 1, l2_size |-> 16, l2_assoc |-> 2,
     addrs |-> {0, 4, 12}],
    [block_size |-> 4, l1_size |-> 8, l1_assoc |-> 1, l2_size |-> 4, l2_assoc |-> 1,
     addrs |-> {0, 4, 8}] >>

\* the operation codes a trace line may carry: the two known ones and another
Ops == {READ, WRITE, "x"}

-----------------------------------------------------------------------------
(* Arithmetic and text helpers *)

RECURSIVE Pow2(_)
Pow2(n) == IF n = 0 THEN 1 ELSE 2 * Pow2(n - 1)

\* fast_math::log2 of a power of two, truncated by `as usize`
RECURSIVE log2(_)
log2(n) == IF n <= 1 THEN 0 ELSE 1 + log2(n \div 2)

SetMax(S) == CHOOSE x \in S : \A y \in S : y <= x
SetMin(S) == CHOOSE x \in S : \A y \in S : x <= y

\* the binary digits of x, most significant first, none for 0
RECURSIVE Digits(_)
Digits(x) == IF x = 0 THEN << >> ELSE Append(Digits(x \div 2), x % 2)

\* format!("{:032b}", x): the digits of x, left-padded with '0' to width 32
format_032b(x) ==
    LET d == IF x = 0 THEN <<0>> ELSE Digits(x)
    IN  IF Len(d) >= 32 THEN d ELSE [i \in 1..(32 - Len(d)) |-> 0] \o d

\* the substring chars then skip n then take k, collected
skip_take(s, n, k) ==
    LET from == IF n < Len(s) THEN n + 1 ELSE Len(s) + 1
        upto == IF n + k < Len(s) THEN n + k ELSE Len(s)
    IN  SubSeq(s, from, upto)

RECURSIVE BinValue(_)
BinValue(s) == IF s = << >> THEN 0
               ELSE 2 * BinValue(SubSeq(s, 1, Len(s) - 1)) + s[Len(s)]

\* usize::from_str_radix(s, 2): Err (here -1) on the empty string
from_str_radix(s) == IF s = << >> THEN -1 ELSE BinValue(s)

unwrap_or(r, d) == IF r = -1 THEN d ELSE r

-----------------------------------------------------------------------------
(* Block and Cache *)

Block_new == [address |-> 0, tag |-> 0, lru |-> 0, valid |-> FALSE, dirty |-> FALSE]

\* a construction that leaves every lru at the 0 of Block::new
Cache_new_lru_zero(cache_size, assoc, block_size) ==
    IF cache_size = 0
    THEN [cache_size |-> 0, assoc |-> 0, block_size |-> 0, sets |-> 0,
          index_bits |-> 0, block_offset_bits |-> 0, tag_bits |-> 0,
          cache |-> << >>]
    ELSE LET sets == cache_size \div (assoc * block_size)
             index_bits == log2(sets)
             block_offset_bits == log2(block_size)
         IN  [cache_size |-> cache_size, assoc |-> assoc, block_size |-> block_size,
              sets |-> sets, index_bits |-> index_bits,
              block_offset_bits |-> block_offset_bits,
              tag_bits |-> 32 - index_bits - block_offset_bits,
              cache |-> [i \in 0..(sets - 1) |-> [j \in 0..(assoc - 1) |-> Block_new]]]

Cache_new(cache_size, assoc, block_size) ==
    IF cache_size = 0
    THEN [cache_size |-> 0, assoc |-> 0, block_size |-> 0, sets |-> 0,
          index_bits |-> 0, block_offset_bits |-> 0, tag_bits |-> 0,
          cache |-> << >>]
    ELSE LET sets == cache_size \div (assoc * block_size)
             index_bits == log2(sets)
             block_offset_bits == log2(block_size)
         IN  [cache_size |-> cache_size, assoc |-> assoc, block_size |-> block_size,
              sets |-> sets, index_bits |-> index_bits,
              block_offset_bits |-> block_offset_bits,
              tag_bits |-> 32 - index_bits - block_offset_bits,
              cache |-> [i \in 0..(sets - 1) |->
                           [j \in 0..(assoc - 1) |-> [Block_new EXCEPT !.lru = j]]]]

Ways(c) == 0..(c.assoc - 1)

\* self.cache[index] is in bounds
InBounds(c, index) == index \in 0..(c.sets - 1)

\* the way update_lru promotes: the last one whose tag matches, way 0 when none does
new_mru_way(set, tag) ==
    LET m == {i \in DOMAIN set : set[i].tag = tag}
    IN  IF m = {} THEN 0 ELSE SetMax(m)

\* a flat LRU: every other way ages by one, whatever its rank
update_lru_set_shift_all(set, tag) ==
    LET w == new_mru_way(set, tag)
    IN  [i \in DOMAIN set |->
            IF i = w THEN [set[i] EXCEPT !.lru = 0]
            ELSE [set[i] EXCEPT !.lru = @ + 1]]

update_lru_set(set, tag) ==
    LET w == new_mru_way(set, tag)
    IN  [i \in DOMAIN set |->
            IF i = w THEN [set[i] EXCEPT !.lru = 0]
            ELSE IF set[i].lru < set[w].lru THEN [set[i] EXCEPT !.lru = @ + 1]
            ELSE set[i]]

update_lru(c, index, tag) ==
    [c EXCEPT !.cache[index] = update_lru_set(@, tag)]


NoPanic == ""
OutOfBounds == "index out of bounds"
NoFreeSpace == "Tried to install where there was no free space."
BadDecode == "unwrap on Err: cannot parse integer from empty string"
UnknownAction == "Unknown action"

read(c, index, tag) ==
    IF c.assoc = 0 THEN [c |-> c, hit |-> MISS, way |-> -1, panic |-> NoPanic]
    ELSE IF ~InBounds(c, index)
    THEN [c |-> c, hit |-> MISS, way |-> -1, panic |-> OutOfBounds]
    ELSE LET m == {i \in Ways(c) : c.cache[index][i].tag = tag /\ c.cache[index][i].valid}
         IN  IF m # {}
             THEN [c |-> update_lru(c, index, tag), hit |-> HIT, way |-> SetMin(m),
                   panic |-> NoPanic]
             ELSE [c |-> c, hit |-> MISS, way |-> -1, panic |-> NoPanic]

\* the last way whose tag matches, as update_lru scans
write_way_last(set, tag) ==
    LET m == {i \in DOMAIN set : set[i].tag = tag}
    IN  IF m = {} THEN -1 ELSE SetMax(m)

\* the first way whose tag matches and that is valid, as read has it
write_way_valid_only(set, tag) ==
    LET m == {i \in DOMAIN set : set[i].tag = tag /\ set[i].valid}
    IN  IF m = {} THEN -1 ELSE SetMin(m)

\* the way `write` writes to: the first one whose tag matches, valid or not
write_way(set, tag) ==
    LET m == {i \in DOMAIN set : set[i].tag = tag}
    IN  IF m = {} THEN -1 ELSE SetMin(m)

write(c, index, tag) ==
    IF c.assoc = 0 THEN [c |-> c, hit |-> MISS, way |-> -1, panic |-> NoPanic]
    ELSE IF ~InBounds(c, index)
    THEN [c |-> c, hit |-> MISS, way |-> -1, panic |-> OutOfBounds]
    ELSE LET i == write_way(c.cache[index], tag)
         IN  IF i # -1
             THEN LET c1 == [c EXCEPT !.cache[index][i].valid = TRUE]
                      c2 == update_lru(c1, index, tag)
                  IN  [c |-> [c2 EXCEPT !.cache[index][i].dirty = TRUE],
                       hit |-> HIT, way |-> i, panic |-> NoPanic]
             ELSE [c |-> c, hit |-> MISS, way |-> -1, panic |-> NoPanic]

\* an install that marks the block it brings in as modified
install_sets_dirty(c, index, tag, address) ==
    IF c.assoc = 0 THEN [c |-> c, way |-> -1, panic |-> NoFreeSpace]
    ELSE IF ~InBounds(c, index) THEN [c |-> c, way |-> -1, panic |-> OutOfBounds]
    ELSE LET m == {i \in Ways(c) : ~c.cache[index][i].valid}
         IN  IF m # {}
             THEN LET i == SetMin(m)
                      c1 == [c EXCEPT !.cache[index][i].address = address,
                                      !.cache[index][i].tag = tag,
                                      !.cache[index][i].valid = TRUE,
                                      !.cache[index][i].dirty = TRUE]
                  IN  [c |-> update_lru(c1, index, tag), way |-> i, panic |-> NoPanic]
             ELSE [c |-> c, way |-> -1, panic |-> NoFreeSpace]

install(c, index, tag, address) ==
    IF c.assoc = 0 THEN [c |-> c, way |-> -1, panic |-> NoFreeSpace]
    ELSE IF ~InBounds(c, index) THEN [c |-> c, way |-> -1, panic |-> OutOfBounds]
    ELSE LET m == {i \in Ways(c) : ~c.cache[index][i].valid}
         IN  IF m # {}
             THEN LET i == SetMin(m)
                      c1 == [c EXCEPT !.cache[index][i].address = address,
                                      !.cache[index][i].tag = tag,
                                      !.cache[index][i].valid = TRUE]
                  IN  [c |-> update_lru(c1, index, tag), way |-> i, panic |-> NoPanic]
             ELSE [c |-> c, way |-> -1, panic |-> NoFreeSpace]

set_is_full(c, index) == \A i \in Ways(c) : c.cache[index][i].valid

\* a victim search that keeps the smallest lru: the most recently used way
block_to_evict_index_mru(set) ==
    LET mn == SetMin({set[i].lru : i \in DOMAIN set})
    IN  SetMin({i \in DOMAIN set : set[i].lru = mn})

\* the way evict_lru_block picks: the first one holding the largest lru, way 0
\* when no lru exceeds 0
block_to_evict_index(set) ==
    LET mx == SetMax({set[i].lru : i \in DOMAIN set})
    IN  IF mx = 0 THEN 0 ELSE SetMin({i \in DOMAIN set : set[i].lru = mx})

\* an eviction that reads the dirty bit after clearing it
evict_lru_block_dirty_after_clear(c, index) ==
    IF c.assoc = 0 \/ ~InBounds(c, index)
    THEN [c |-> c, way |-> -1, evicted_block_address |-> 0,
          evicted_block_was_dirty |-> FALSE, panic |-> OutOfBounds]
    ELSE LET i == block_to_evict_index(c.cache[index])
         IN  [c |-> [c EXCEPT !.cache[index][i].valid = FALSE,
                              !.cache[index][i].dirty = FALSE],
              way |-> i,
              evicted_block_address |-> c.cache[index][i].address,
              evicted_block_was_dirty |-> FALSE,
              panic |-> NoPanic]

\* an eviction that invalidates the victim and leaves its dirty bit set
evict_lru_block_keeps_dirty(c, index) ==
    IF c.assoc = 0 \/ ~InBounds(c, index)
    THEN [c |-> c, way |-> -1, evicted_block_address |-> 0,
          evicted_block_was_dirty |-> FALSE, panic |-> OutOfBounds]
    ELSE LET i == block_to_evict_index(c.cache[index])
         IN  [c |-> [c EXCEPT !.cache[index][i].valid = FALSE],
              way |-> i,
              evicted_block_address |-> c.cache[index][i].address,
              evicted_block_was_dirty |-> c.cache[index][i].dirty,
              panic |-> NoPanic]

evict_lru_block(c, index) ==
    IF c.assoc = 0 \/ ~InBounds(c, index)
    THEN [c |-> c, way |-> -1, evicted_block_address |-> 0,
          evicted_block_was_dirty |-> FALSE, panic |-> OutOfBounds]
    ELSE LET i == block_to_evict_index(c.cache[index])
         IN  [c |-> [c EXCEPT !.cache[index][i].valid = FALSE,
                              !.cache[index][i].dirty = FALSE],
              way |-> i,
              evicted_block_address |-> c.cache[index][i].address,
              evicted_block_was_dirty |-> c.cache[index][i].dirty,
              panic |-> NoPanic]

-----------------------------------------------------------------------------
(* Statistics *)

Statistics_new ==
    [l1_reads |-> 0, l1_read_misses |-> 0, l1_writes |-> 0, l1_write_misses |-> 0,
     l1_write_backs |-> 0, l2_reads |-> 0, l2_read_misses |-> 0, l2_writes |-> 0,
     l2_write_misses |-> 0, l2_write_backs |-> 0, total_memory_traffic |-> 0,
     l1_prefetches |-> 0, l2_prefetches |-> 0, l2_reads_from_l1_prefetch |-> 0,
     l2_read_misses_from_l1_prefetch |-> 0]


-----------------------------------------------------------------------------
(* The controller: the body of main's loop over the trace lines.           *)
(* A machine state m carries the two caches, the statistics, the log of     *)
(* Cache calls made so far for this line, the panic that aborted the run    *)
(* (if any) and the value returned by the last call.                        *)

Machine(c1, c2, st) ==
    [l1 |-> c1, l2 |-> c2, stats |-> st, calls |-> << >>, decodes |-> << >>,
     panic |-> NoPanic, hit |-> MISS, evicted_block_address |-> 0, evicted_block_was_dirty |-> FALSE]

Level(m, lvl) == IF lvl = "L1" THEN m.l1 ELSE m.l2

SetLevel(m, lvl, c) == IF lvl = "L1" THEN [m EXCEPT !.l1 = c] ELSE [m EXCEPT !.l2 = c]

SetOf(c, index) == IF InBounds(c, index) THEN c.cache[index] ELSE << >>

\* one entry of the call log: the call, what it returned, the set before and after
Call(m, lvl, op, index, tag, address, hit, dirty, way, pnc, c, c2) ==
    [lvl |-> lvl, op |-> op, index |-> index, tag |-> tag, address |-> address,
     hit |-> (hit = HIT), dirty |-> dirty, way |-> way, panic |-> pnc,
     before |-> SetOf(c, index), after |-> SetOf(c2, index),
     mt |-> m.stats.total_memory_traffic]

\* stats.<counter> += 1
Count(m, counter) ==
    IF m.panic # NoPanic THEN m ELSE [m EXCEPT !.stats[counter] = @ + 1]

do_read(m, lvl, index, tag) ==
    IF m.panic # NoPanic THEN m
    ELSE LET c == Level(m, lvl)
             r == read(c, index, tag)
         IN  [SetLevel(m, lvl, r.c) EXCEPT
                 !.hit = r.hit, !.panic = r.panic,
                 !.calls = Append(@, Call(m, lvl, "read", index, tag, 0,
                                          r.hit, FALSE, r.way, r.panic, c, r.c))]

do_write(m, lvl, index, tag) ==
    IF m.panic # NoPanic THEN m
    ELSE LET c == Level(m, lvl)
             r == write(c, index, tag)
         IN  [SetLevel(m, lvl, r.c) EXCEPT
                 !.hit = r.hit, !.panic = r.panic,
                 !.calls = Append(@, Call(m, lvl, "write", index, tag, 0,
                                          r.hit, FALSE, r.way, r.panic, c, r.c))]

do_install(m, lvl, index, tag, address) ==
    IF m.panic # NoPanic THEN m
    ELSE LET c == Level(m, lvl)
             r == install(c, index, tag, address)
         IN  [SetLevel(m, lvl, r.c) EXCEPT
                 !.panic = r.panic,
                 !.calls = Append(@, Call(m, lvl, "install", index, tag, address,
                                          MISS, FALSE, r.way, r.panic, c, r.c))]

do_evict(m, lvl, index) ==
    IF m.panic # NoPanic THEN m
    ELSE LET c == Level(m, lvl)
             r == evict_lru_block(c, index)
             victim == IF r.way = -1 THEN Block_new ELSE c.cache[index][r.way]
         IN  [SetLevel(m, lvl, r.c) EXCEPT
                 !.panic = r.panic,
                 !.evicted_block_address = r.evicted_block_address,
                 !.evicted_block_was_dirty = r.evicted_block_was_dirty,
                 !.calls = Append(@, Call(m, lvl, "evict", index, victim.tag,
                                          r.evicted_block_address, MISS,
                                          r.evicted_block_was_dirty, r.way, r.panic,
                                          c, r.c))]

\* note that an address was decoded for a level (its index and its tag)
Decoded(m, lvl, address) ==
    [m EXCEPT !.decodes = Append(@, [lvl |-> lvl, address |-> address])]

\* the index and tag substrings of a formatted address, parsed in base 2
decode_index(bin, c) == from_str_radix(skip_take(bin, c.tag_bits, c.index_bits))
decode_tag(bin, c) == from_str_radix(skip_take(bin, 0, c.tag_bits))

\* a controller that takes L2 to be there whatever its size
l2_always_present(c) == TRUE

\* `l2.cache_size != 0`
l2_present(c) == c.cache_size # 0

\* evict from a full L2 set before installing; a dirty victim goes to main memory
\* an L2 eviction whose dirty victim is counted as a write-back but not as traffic
l2_make_room_untracked(m, index) ==
    IF set_is_full(m.l2, index)
    THEN LET e == do_evict(m, "L2", index)
         IN  IF e.evicted_block_was_dirty
             THEN Count(e, "l2_write_backs")
             ELSE e
    ELSE m

l2_make_room(m, index) ==
    IF set_is_full(m.l2, index)
    THEN LET e == do_evict(m, "L2", index)
         IN  IF e.evicted_block_was_dirty
             THEN Count(Count(e, "l2_write_backs"), "total_memory_traffic")
             ELSE e
    ELSE m

\* a write-back that counts the L2 write only when it hit
write_back_to_l2_counts_hits(m, evicted_address, address_usize) ==
    LET evicted_block_address == format_032b(evicted_address)
        l2_write_back_index == unwrap_or(decode_index(evicted_block_address, m.l2), 0)
        l2_write_back_tag == unwrap_or(decode_tag(evicted_block_address, m.l2), 0)
        w == do_write(Decoded(m, "L2", evicted_address), "L2",
                      l2_write_back_index, l2_write_back_tag)
        x == IF w.hit = MISS
             THEN LET a == Count(w, "l2_write_misses")
                      b == l2_make_room(a, l2_write_back_index)
                      c == do_install(b, "L2", l2_write_back_index, l2_write_back_tag,
                                      address_usize)
                  IN  Count(c, "total_memory_traffic")
             ELSE Count(w, "l2_writes")
    IN  Count(x, "l1_write_backs")

\* write a dirty L1 victim back to L2
write_back_to_l2(m, evicted_address, address_usize) ==
    LET evicted_block_address == format_032b(evicted_address)
        l2_write_back_index == unwrap_or(decode_index(evicted_block_address, m.l2), 0)
        l2_write_back_tag == unwrap_or(decode_tag(evicted_block_address, m.l2), 0)
        w == do_write(Decoded(m, "L2", evicted_address), "L2",
                      l2_write_back_index, l2_write_back_tag)
        x == IF w.hit = MISS
             THEN LET a == Count(w, "l2_write_misses")
                      b == l2_make_room(a, l2_write_back_index)
                      c == do_install(b, "L2", l2_write_back_index, l2_write_back_tag,
                                      address_usize)
                  IN  Count(c, "total_memory_traffic")
             ELSE w
    IN  Count(Count(x, "l1_write_backs"), "l2_writes")

\* a controller that installs into L1 without evicting first
l1_make_room_skipped(m, l1_index, address_usize) == m

\* evict from a full L1 set before inserting, with the write-back a dirty victim owes
l1_make_room(m, l1_index, address_usize) ==
    IF set_is_full(m.l1, l1_index)
    THEN LET e == do_evict(m, "L1", l1_index)
         IN  IF l2_present(e.l2)
             THEN IF e.evicted_block_was_dirty
                  THEN write_back_to_l2(e, e.evicted_block_address, address_usize)
                  ELSE e
             ELSE IF e.evicted_block_was_dirty
                  THEN Count(Count(e, "l1_write_backs"), "total_memory_traffic")
                  ELSE e
    ELSE m

\* install in L1, then write when the access is a write, and count it
l1_install_counted(m, rw, l1_index, l1_tag, address_usize) ==
    LET i == do_install(m, "L1", l1_index, l1_tag, address_usize)
    IN  IF rw = READ THEN Count(i, "l1_reads")
        ELSE Count(do_write(i, "L1", l1_index, l1_tag), "l1_writes")

\* the block comes from L2, which reads it from main memory on a miss
fill_from_l2(m, rw, address_usize, l1_index, l1_tag, l2_index, l2_tag) ==
    LET r == do_read(m, "L2", l2_index, l2_tag)
    IN  IF r.hit = HIT
        THEN l1_install_counted(Count(r, "l2_reads"), rw, l1_index, l1_tag, address_usize)
        ELSE LET a == Count(r, "l2_read_misses")
                 b == l2_make_room(a, l2_index)
                 c == do_install(b, "L2", l2_index, l2_tag, address_usize)
                 d == Count(Count(c, "total_memory_traffic"), "l2_reads")
             IN  l1_install_counted(d, rw, l1_index, l1_tag, address_usize)

\* a read fill that counts the block fetched from memory and installs nothing
fill_from_memory_reads_bypass(m, rw, address_usize, l1_index, l1_tag) ==
    IF rw = READ
    THEN Count(Count(m, "total_memory_traffic"), "l1_reads")
    ELSE LET i == do_install(m, "L1", l1_index, l1_tag, address_usize)
             w == IF rw = WRITE THEN do_write(i, "L1", l1_index, l1_tag) ELSE i
             t == Count(w, "total_memory_traffic")
         IN  IF rw = WRITE THEN Count(t, "l1_writes") ELSE t

\* no L2: install the block from main memory
fill_from_memory(m, rw, address_usize, l1_index, l1_tag) ==
    LET i == do_install(m, "L1", l1_index, l1_tag, address_usize)
        w == IF rw = WRITE THEN do_write(i, "L1", l1_index, l1_tag) ELSE i
        t == Count(w, "total_memory_traffic")
    IN  IF rw = READ THEN Count(t, "l1_reads")
        ELSE IF rw = WRITE THEN Count(t, "l1_writes")
        ELSE t

\* a loop body that never rejects an operation code: what is not r is taken as w
process_line_unchecked(c1, c2, st, rw, address_usize) ==
    LET m0 == Machine(c1, c2, st)
        address_binary_string == format_032b(address_usize)
        l1_index == decode_index(address_binary_string, c1)
        l1_tag == decode_tag(address_binary_string, c1)
        l2_index == unwrap_or(decode_index(address_binary_string, c2), 0)
        l2_tag == unwrap_or(decode_tag(address_binary_string, c2), 0)
        m1 == Decoded(m0, "L1", address_usize)
        m2 == Decoded(m1, "L2", address_usize)
    IN  IF l1_index = -1 \/ l1_tag = -1 THEN [m1 EXCEPT !.panic = BadDecode]
        ELSE LET a == IF rw = READ THEN do_read(m2, "L1", l1_index, l1_tag)
                      ELSE do_write(m2, "L1", l1_index, l1_tag)
             IN  IF a.panic # NoPanic THEN a
                 ELSE IF a.hit = HIT
                 THEN Count(a, IF rw = READ THEN "l1_reads" ELSE "l1_writes")
                 ELSE LET b == Count(a, IF rw = READ THEN "l1_read_misses"
                                        ELSE "l1_write_misses")
                          c == l1_make_room(b, l1_index, address_usize)
                      IN  IF l2_present(c.l2)
                          THEN fill_from_l2(c, rw, address_usize, l1_index, l1_tag,
                                            l2_index, l2_tag)
                          ELSE fill_from_memory(c, rw, address_usize, l1_index, l1_tag)

\* the whole loop body for one trace line
process_line(c1, c2, st, rw, address_usize) ==
    LET m0 == Machine(c1, c2, st)
        address_binary_string == format_032b(address_usize)
        l1_index == decode_index(address_binary_string, c1)
        l1_tag == decode_tag(address_binary_string, c1)
        l2_index == unwrap_or(decode_index(address_binary_string, c2), 0)
        l2_tag == unwrap_or(decode_tag(address_binary_string, c2), 0)
        m1 == Decoded(m0, "L1", address_usize)
        m2 == Decoded(m1, "L2", address_usize)
    IN  IF rw # READ /\ rw # WRITE THEN [m0 EXCEPT !.panic = UnknownAction]
        ELSE IF l1_index = -1 \/ l1_tag = -1 THEN [m1 EXCEPT !.panic = BadDecode]
        ELSE LET a == IF rw = READ THEN do_read(m2, "L1", l1_index, l1_tag)
                      ELSE do_write(m2, "L1", l1_index, l1_tag)
             IN  IF a.panic # NoPanic THEN a
                 ELSE IF a.hit = HIT
                 THEN Count(a, IF rw = READ THEN "l1_reads" ELSE "l1_writes")
                 ELSE LET b == Count(a, IF rw = READ THEN "l1_read_misses"
                                        ELSE "l1_write_misses")
                          c == l1_make_room(b, l1_index, address_usize)
                      IN  IF l2_present(c.l2)
                          THEN fill_from_l2(c, rw, address_usize, l1_index, l1_tag,
                                            l2_index, l2_tag)
                          ELSE fill_from_memory(c, rw, address_usize, l1_index, l1_tag)


-----------------------------------------------------------------------------
(* Oracles, kept beside the program: they read the call log only.          *)

Levels == {"L1", "L2"}

Touched(seq, tag) == Append(SelectSeq(seq, LAMBDA t : t # tag), tag)

\* the recency order of the tags of each set after one more call
OrderStep(o, e) ==
    IF e.panic # NoPanic THEN o
    ELSE IF e.op = "install" \/ (e.op \in {"read", "write"} /\ e.hit)
    THEN [o EXCEPT ![e.lvl][e.index] = Touched(@, e.tag)]
    ELSE IF e.op = "evict"
    THEN [o EXCEPT ![e.lvl][e.index] = SelectSeq(@, LAMBDA t : t # e.tag)]
    ELSE o

RECURSIVE OrderAfter(_, _)
OrderAfter(o, es) ==
    IF es = << >> THEN o ELSE OrderAfter(OrderStep(o, Head(es)), Tail(es))

\* the tags installed into each L1 set and not evicted since, after one more call
ResidentStep(o, e) ==
    IF e.panic # NoPanic \/ e.lvl # "L1" THEN o
    ELSE IF e.op = "install" THEN [o EXCEPT ![e.index] = @ \cup {e.tag}]
    ELSE IF e.op = "evict" THEN [o EXCEPT ![e.index] = @ \ {e.tag}]
    ELSE o

RECURSIVE ResidentAfter(_, _)
ResidentAfter(o, es) ==
    IF es = << >> THEN o ELSE ResidentAfter(ResidentStep(o, Head(es)), Tail(es))

-----------------------------------------------------------------------------
(* The state machine *)

Init ==
    /\ args \in 1..Len(Configs)
    /\ l1 = Cache_new(Configs[args].l1_size, Configs[args].l1_assoc, Configs[args].block_size)
    /\ l2 = Cache_new(Configs[args].l2_size, Configs[args].l2_assoc, Configs[args].block_size)
    /\ stats = Statistics_new
    /\ panic = NoPanic
    /\ reported = 0
    /\ trace = << >>
    /\ calls = << >>
    /\ decodes = << >>
    /\ stats_pre = stats
    /\ order = [lvl \in Levels |-> [i \in 0..((IF lvl = "L1" THEN l1 ELSE l2).sets - 1) |-> << >>]]
    /\ order_pre = order
    /\ resident = [i \in 0..(l1.sets - 1) |-> {}]
    /\ resident_pre = resident

\* main's loop body for the trace line "<rw> <address>"
Access(rw, address_usize) ==
    /\ panic = NoPanic
    /\ reported = 0
    /\ Len(trace) < MaxTrace
    /\ \E m \in {process_line(l1, l2, stats, rw, address_usize)},
          bin \in {format_032b(address_usize)} :
           /\ l1' = m.l1
           /\ l2' = m.l2
           /\ stats' = m.stats
           /\ panic' = m.panic
           /\ calls' = m.calls
           /\ decodes' = m.decodes
           /\ stats_pre' = stats
           /\ trace' = Append(trace,
                  [rw |-> rw, address |-> address_usize,
                   l1_index |-> decode_index(bin, l1), l1_tag |-> decode_tag(bin, l1),
                   l2_index |-> unwrap_or(decode_index(bin, l2), 0),
                   l2_tag |-> unwrap_or(decode_tag(bin, l2), 0)])
           /\ order_pre' = order
           /\ order' = OrderAfter(order, m.calls)
           /\ resident_pre' = resident
           /\ resident' = ResidentAfter(resident, m.calls)
    /\ UNCHANGED <<args, reported>>

\* the end of the trace: main prints the L1 contents, the L2 contents when there is
\* an L2, and the statistics
Report ==
    /\ panic = NoPanic
    /\ reported = 0
    /\ reported' = reported + 1
    /\ UNCHANGED <<args, l1, l2, stats, panic, trace, calls, decodes, stats_pre,
                   order_pre, order, resident_pre, resident>>

Next ==
    \/ \E rw \in Ops, address_usize \in Configs[args].addrs : Access(rw, address_usize)
    \/ Report

Spec == Init /\ [][Next]_vars


-----------------------------------------------------------------------------
(* What the claims speak of *)

\* the address arithmetic a decoder is held to: the set index and the tag of an
\* address under a geometry of index_bits and block_offset_bits
ArithIndex(c, a) == (a \div Pow2(c.block_offset_bits)) % Pow2(c.index_bits)
ArithTag(c, a) == a \div Pow2(c.block_offset_bits + c.index_bits)

ValidWays(set) == {i \in DOMAIN set : set[i].valid}
IsFull(set) == \A i \in DOMAIN set : set[i].valid
Lrus(set) == [i \in DOMAIN set |-> set[i].lru]

\* the calls of the last line that are the given operation on the given level
CallsOf(lvl, op) == {k \in DOMAIN calls : calls[k].lvl = lvl /\ calls[k].op = op}

\* the recency oracle of the set a call works on, as it stood when the call was made
OrderBefore(k) ==
    OrderAfter(order_pre, SubSeq(calls, 1, k - 1))[calls[k].lvl][calls[k].index]

\* C1: with no L2, the first L1 read/write of every access hits exactly when the
\* tag was installed into that L1 set earlier and not evicted since.
C1_HitIffInstalled ==
    (l2.cache_size = 0 /\ calls # << >>) =>
        (calls[1].hit <=> calls[1].tag \in resident_pre[calls[1].index])

\* C2: every eviction is made on a full set, its victim holds the largest recency
\* rank among the valid slots, and the victim's tag is the one the oracle recorded
\* as least recently touched.
C2_EvictsLeastRecentlyTouched ==
    \A k \in DOMAIN calls :
        (calls[k].op = "evict" /\ calls[k].panic = NoPanic) =>
            LET e == calls[k]
                o == OrderBefore(k)
            IN  /\ IsFull(e.before)
                /\ \A i \in ValidWays(e.before) : e.before[i].lru <= e.before[e.way].lru
                /\ o # << >>
                /\ e.tag = Head(o)


\* the trace lines processed so far, as (operation, address) pairs
Lines == [k \in DOMAIN trace |-> <<trace[k].rw, trace[k].address>>]

ExampleConfig ==
    /\ Configs[args].block_size = 32
    /\ Configs[args].l1_size = 1024
    /\ Configs[args].l1_assoc = 2
    /\ Configs[args].l2_size = 0
    /\ Configs[args].l2_assoc = 0

\* C3: under block_size=32, L1_size=1024, L1_assoc=2 and no L2, the trace
\* r 00000000, r 00000000, w 00000020 gives an L1 miss, an L1 hit, then an L1 miss
\* followed by an install into another set, and ends with l1_reads = 2,
\* l1_read_misses = 1, l1_writes = 1, l1_write_misses = 1.
C3_EndToEndExample ==
    ExampleConfig =>
        /\ (Lines = << <<READ, 0>> >>) => ~calls[1].hit
        /\ (Lines = << <<READ, 0>>, <<READ, 0>> >>) => calls[1].hit
        /\ (Lines = << <<READ, 0>>, <<READ, 0>>, <<WRITE, 32>> >>) =>
              /\ ~calls[1].hit
              /\ \E k \in CallsOf("L1", "install") : calls[k].index # trace[1].l1_index
              /\ stats.l1_reads = 2
              /\ stats.l1_read_misses = 1
              /\ stats.l1_writes = 1
              /\ stats.l1_write_misses = 1

\* C4: an L1 eviction of a dirty victim adds exactly one unit of memory traffic for
\* the write-back when there is no L2, and makes exactly one L2 write, at the index
\* and tag of the victim's stored address, when there is an L2; an L1 eviction of a
\* clean victim adds no traffic before the next call and makes no L2 write.
C4_WriteBackPropagation ==
    \A k \in CallsOf("L1", "evict") :
        LET e == calls[k]
            was_dirty == e.before[e.way].dirty
            l2w == CallsOf("L2", "write")
        IN  /\ e.panic = NoPanic
            /\ k < Len(calls)
            /\ IF l2.cache_size = 0
               THEN /\ calls[k + 1].lvl = "L1" /\ calls[k + 1].op = "install"
                    /\ calls[k + 1].mt - e.mt = (IF was_dirty THEN 1 ELSE 0)
                    /\ l2w = {}
               ELSE IF was_dirty
               THEN /\ l2w = {k + 1}
                    /\ calls[k + 1].index = ArithIndex(l2, e.address)
                    /\ calls[k + 1].tag = ArithTag(l2, e.address)
               ELSE /\ l2w = {}
                    /\ calls[k + 1].mt = e.mt

C4_Witness ==
    /\ l2.cache_size # 0
    /\ \E k \in CallsOf("L1", "evict") : calls[k].before[calls[k].way].dirty

\* C5: every install, into L1 or L2, finds an invalid slot in its set: the run
\* never aborts with "Tried to install where there was no free space".
C5_InstallNeverOnFullSet ==
    /\ panic # NoFreeSpace
    /\ \A k \in DOMAIN calls :
          calls[k].op = "install" =>
              /\ calls[k].panic = NoPanic
              /\ calls[k].before # << >>
              /\ ~IsFull(calls[k].before)

\* an install into a set that was full when the line began, on either level
C5_Witness ==
    \E k, j \in DOMAIN calls :
        /\ k < j
        /\ calls[k].op = "evict" /\ calls[j].op = "install"
        /\ calls[k].lvl = "L2" /\ calls[j].lvl = "L2"
        /\ calls[k].index = calls[j].index
        /\ CallsOf("L1", "evict") # {}


RECURSIVE Touches(_, _, _)
\* the set after n calls of update_lru for the tag
Touches(set, tag, n) == IF n = 0 THEN set ELSE Touches(update_lru_set(set, tag), tag, n - 1)

\* the sets of both levels in the current state
AllSets == {l1.cache[i] : i \in DOMAIN l1.cache} \cup {l2.cache[i] : i \in DOMAIN l2.cache}

\* C6: when the slot update_lru selects for a tag already has recency rank 0,
\* calling update_lru for that tag once, twice or three times leaves the rank of
\* every slot of the set as it was.
C6_TouchIdempotent ==
    \A set \in AllSets :
        \A tag \in {set[i].tag : i \in DOMAIN set} :
            set[new_mru_way(set, tag)].lru = 0 =>
                \A n \in 1..3 : Lrus(Touches(set, tag, n)) = Lrus(set)

\* the last call was a hit that touched a slot already at rank 0, in a set with
\* other valid slots
C6_Witness ==
    /\ calls # << >>
    /\ LET e == calls[Len(calls)]
       IN  /\ e.op \in {"read", "write"} /\ e.hit
           /\ e.before[new_mru_way(e.before, e.tag)].lru = 0
           /\ Cardinality(ValidWays(e.before)) >= 2
           /\ e.before[e.way].valid

\* the tags the trace has brought to an L1 set so far
TagsBrought(index) == {trace[k].l1_tag : k \in {j \in DOMAIN trace : trace[j].l1_index = index}}

\* C7: when the access for the (A+1)-th distinct tag of an L1 set evicts, the victim
\* is the tag least recently touched, and the install that follows fills the
\* victim's slot, leaving the set full with the new tag valid in it.
C7_EvictInstallRoundTrip ==
    \A k \in CallsOf("L1", "evict") :
        Cardinality(TagsBrought(calls[k].index)) = l1.assoc + 1 =>
            LET e == calls[k]
                o == OrderBefore(k)
                js == {j \in CallsOf("L1", "install") : j > k}
            IN  /\ o # << >>
                /\ e.tag = Head(o)
                /\ js # {}
                /\ \A j \in js :
                      /\ calls[j].index = e.index
                      /\ calls[j].way = e.way
                      /\ IsFull(calls[j].after)
                      /\ calls[j].after[e.way].valid
                      /\ calls[j].after[e.way].tag = trace[Len(trace)].l1_tag

NoDuplicateValidTag(set) ==
    \A i, j \in ValidWays(set) : set[i].tag = set[j].tag => i = j

\* C8: no set of L1 or L2 ever has two valid slots with the same tag, neither
\* between trace lines nor after any single call made while a line is processed.
C8_OneValidSlotPerTag ==
    /\ \A set \in AllSets : NoDuplicateValidTag(set)
    /\ \A k \in DOMAIN calls : NoDuplicateValidTag(calls[k].after)

\* a write hit that matched an invalid slot by its tag, beside a valid slot
C8_Witness ==
    \E k \in DOMAIN calls :
        /\ calls[k].op = "write" /\ calls[k].hit
        /\ ~calls[k].before[calls[k].way].valid
        /\ Cardinality(ValidWays(calls[k].after)) >= 2

IsPow2(n) == n >= 1 /\ Pow2(log2(n)) = n

\* C9: for every address and every present level whose set count and block size are
\* powers of two, decoding succeeds, the tag is the highest tag_bits bits, the set
\* index the next index_bits bits (0 when there are none), and the three widths
\* add up to 32.
C9_DecodeTotalAndExact ==
    \A k \in {j \in DOMAIN trace : trace[j].rw \in {READ, WRITE}} :
        /\ (IsPow2(l1.sets) /\ IsPow2(l1.block_size)) =>
              /\ trace[k].l1_index # -1
              /\ trace[k].l1_tag # -1
              /\ trace[k].l1_index = ArithIndex(l1, trace[k].address)
              /\ trace[k].l1_tag = ArithTag(l1, trace[k].address)
              /\ l1.tag_bits + l1.index_bits + l1.block_offset_bits = 32
        /\ (l2.cache_size # 0 /\ IsPow2(l2.sets) /\ IsPow2(l2.block_size)) =>
              /\ trace[k].l2_index = ArithIndex(l2, trace[k].address)
              /\ trace[k].l2_tag = ArithTag(l2, trace[k].address)
              /\ l2.tag_bits + l2.index_bits + l2.block_offset_bits = 32

\* C10: with L2 absent no call is ever made to L2, the L2 cache stays as
\* constructed and the five L2 counters stay 0.
C10_AbsentL2Untouched ==
    l2.cache_size = 0 =>
        /\ \A k \in DOMAIN calls : calls[k].lvl # "L2"
        /\ l2 = Cache_new(0, 0, 0)
        /\ stats.l2_reads = 0
        /\ stats.l2_read_misses = 0
        /\ stats.l2_writes = 0
        /\ stats.l2_write_misses = 0
        /\ stats.l2_write_backs = 0

\* with L2 absent, an L1 miss that evicted a dirty victim and installed
C10_Witness ==
    /\ l2.cache_size = 0
    /\ \E k \in CallsOf("L1", "evict") : calls[k].before[calls[k].way].dirty
    /\ CallsOf("L1", "install") # {}
    /\ stats.l1_write_backs > 0


\* C11: with L2 absent no address is ever decoded for L2, neither the accessed
\* address nor a write-back address.
C11_NoDecodeForAbsentL2 ==
    l2.cache_size = 0 => \A k \in DOMAIN decodes : decodes[k].lvl # "L2"

\* the lines that ran to their end, and the line an unknown operation code aborted
Processed == {k \in DOMAIN trace : trace[k].rw \in {READ, WRITE}}

\* C12: the report is printed at most once, and only by a run no line of which
\* failed; after a panic nothing is printed; a line whose operation code is neither
\* r nor w makes no Cache call, no decoding, leaves both caches and the statistics as
\* they were and is the last line of the run.
C12_State ==
    /\ reported \in {0, 1}
    /\ reported = 1 => (panic = NoPanic /\ Processed = DOMAIN trace)
    /\ panic # NoPanic => reported = 0
    /\ \A k \in DOMAIN trace :
          trace[k].rw \notin {READ, WRITE} =>
              /\ k = Len(trace)
              /\ panic = UnknownAction
              /\ calls = << >>
              /\ decodes = << >>
              /\ stats = stats_pre
              /\ order = order_pre
    /\ (panic = NoPanic /\ reported = 0) => ENABLED Report

C12_Step ==
    /\ panic' = UnknownAction => (l1' = l1 /\ l2' = l2 /\ stats' = stats)
    /\ (panic # NoPanic \/ reported # 0) => UNCHANGED vars
    /\ reported' # reported => (l1' = l1 /\ l2' = l2 /\ stats' = stats /\ trace' = trace)

C12_ReportOnceIffNoError == []C12_State /\ [][C12_Step]_vars

\* a run that processed lines, changed the caches and printed its report
C12_Witness ==
    /\ reported = 1
    /\ Len(trace) >= 2
    /\ stats.total_memory_traffic > 0

\* a run aborted by an unknown operation code after lines that changed the caches
C12_AbortWitness ==
    /\ panic = UnknownAction
    /\ Len(trace) >= 2
    /\ stats.total_memory_traffic > 0


\* the calls of the last line that touch a tag: read hits, write hits and installs
Touching ==
    {k \in DOMAIN calls :
        /\ calls[k].panic = NoPanic
        /\ calls[k].op = "install" \/ (calls[k].op \in {"read", "write"} /\ calls[k].hit)}

\* C13: after every read hit, write hit and install for a tag, the valid slot that
\* holds the tag has rank 0, every other slot whose rank was strictly below that
\* slot's previous rank has gained exactly 1, and every remaining slot's rank is
\* unchanged.
C13_TouchReordersStack ==
    \A k \in Touching :
        LET e == calls[k]
            w == e.way
        IN  /\ e.after[w].valid /\ e.after[w].tag = e.tag
            /\ e.after[w].lru = 0
            /\ \A i \in DOMAIN e.after \ {w} :
                  e.after[i].lru = IF e.before[i].lru < e.before[w].lru
                                   THEN e.before[i].lru + 1
                                   ELSE e.before[i].lru


\* the fields of a slot other than its rank
Content(b) == [valid |-> b.valid, dirty |-> b.dirty, tag |-> b.tag, address |-> b.address]

\* C14: every install fills the lowest-numbered invalid slot of its set; afterwards
\* that slot is valid, holds the given tag and address and is not dirty, and no
\* other slot's valid, dirty, tag or address has changed.
C14_InstallFillsFirstInvalidClean ==
    \A k \in DOMAIN calls :
        (calls[k].op = "install" /\ calls[k].panic = NoPanic) =>
            LET e == calls[k]
                free == {i \in DOMAIN e.before : ~e.before[i].valid}
            IN  /\ free # {}
                /\ e.way = SetMin(free)
                /\ Content(e.after[e.way]) =
                     [valid |-> TRUE, dirty |-> FALSE, tag |-> e.tag, address |-> e.address]
                /\ \A i \in DOMAIN e.after \ {e.way} :
                      Content(e.after[i]) = Content(e.before[i])

\* an install into the slot an eviction of a dirty victim has just freed
C14_Witness ==
    \E k, j \in DOMAIN calls :
        /\ j = k + 1
        /\ calls[k].op = "evict" /\ calls[k].before[calls[k].way].dirty
        /\ calls[j].op = "install" /\ calls[j].lvl = calls[k].lvl
        /\ calls[j].index = calls[k].index /\ calls[j].way = calls[k].way
        /\ calls[j].way > 0


\* the present levels
PresentLevels == {c \in {l1, l2} : c.assoc > 0}

\* C15: a write hits exactly when some slot of the set has the tag, valid or not;
\* on a hit the first such slot ends valid and dirty; a write miss and a read miss
\* change no field of any slot of the level.
C15_WriteHitsByTagAlone ==
    /\ \A k \in DOMAIN calls :
          (calls[k].op = "write" /\ calls[k].panic = NoPanic) =>
              LET e == calls[k]
                  m == {i \in DOMAIN e.before : e.before[i].tag = e.tag}
              IN  /\ e.hit <=> m # {}
                  /\ e.hit => /\ e.way = SetMin(m)
                              /\ e.after[e.way].valid
                              /\ e.after[e.way].dirty
                  /\ ~e.hit => e.after = e.before
    /\ \A k \in DOMAIN calls :
          (calls[k].op = "read" /\ ~calls[k].hit) => calls[k].after = calls[k].before
    /\ \A c \in PresentLevels : \A a \in Configs[args].addrs :
          LET w == write(c, ArithIndex(c, a), ArithTag(c, a))
              r == read(c, ArithIndex(c, a), ArithTag(c, a))
          IN  /\ w.hit = MISS => w.c = c
              /\ r.hit = MISS => r.c = c

\* a write-back to L2 that hit a slot never installed, and an L1 write that missed
C15_Witness ==
    /\ \E k \in CallsOf("L2", "write") :
          calls[k].hit /\ ~calls[k].before[calls[k].way].valid
    /\ \E k \in CallsOf("L1", "write") :
          ~calls[k].hit /\ ValidWays(calls[k].before) # {}


\* C16: an eviction from a full set takes the slot with the largest recency value,
\* clears its valid and dirty bits and returns its address and its dirty flag as
\* they were; the victim's tag and rank, every other slot of the set and every other
\* set of the level stay as they were.
C16_EvictTakesLargestRank ==
    /\ \A k \in DOMAIN calls :
          (calls[k].op = "evict" /\ calls[k].panic = NoPanic) =>
              LET e == calls[k]
                  v == e.before[e.way]
              IN  /\ IsFull(e.before)
                  /\ \A i \in DOMAIN e.before : e.before[i].lru <= v.lru
                  /\ e.after[e.way] = [v EXCEPT !.valid = FALSE, !.dirty = FALSE]
                  /\ e.address = v.address
                  /\ e.dirty = v.dirty
                  /\ \A i \in DOMAIN e.before \ {e.way} : e.after[i] = e.before[i]
    /\ \A c \in PresentLevels : \A i \in DOMAIN c.cache :
          IsFull(c.cache[i]) =>
              LET r == evict_lru_block(c, i)
              IN  /\ r.panic = NoPanic
                  /\ \A j \in DOMAIN c.cache \ {i} : r.c.cache[j] = c.cache[j]
                  /\ \A w \in Ways(c) : c.cache[i][w].lru <= c.cache[i][r.way].lru

\* an L2 eviction whose victim was dirty and not in way 0
C16_Witness ==
    \E k \in CallsOf("L2", "evict") :
        /\ calls[k].dirty
        /\ calls[k].way > 0
        /\ calls[k].before[calls[k].way].dirty


\* the L1 evictions of the last line whose victim was dirty
DirtyL1Evictions == {k \in CallsOf("L1", "evict") : calls[k].before[calls[k].way].dirty}

\* C17: with an L2, l1_write_backs equals l2_writes after every line, and over each
\* line both grow by the number of dirty L1 victims it evicted (1 or 0), whether
\* the L2 write hit or missed.
C17_WriteBacksEqualL2Writes ==
    l2.cache_size # 0 =>
        /\ stats.l1_write_backs = stats.l2_writes
        /\ stats.l1_write_backs - stats_pre.l1_write_backs = Cardinality(DirtyL1Evictions)
        /\ stats.l2_writes - stats_pre.l2_writes = Cardinality(DirtyL1Evictions)
        /\ Cardinality(CallsOf("L2", "write")) = Cardinality(DirtyL1Evictions)

\* a dirty L1 victim whose write-back missed in L2, after an earlier write-back
C17_Witness ==
    /\ DirtyL1Evictions # {}
    /\ \E k \in CallsOf("L2", "write") : ~calls[k].hit
    /\ stats.l2_writes >= 2


\* the stored address of a slot decodes, under the level's geometry, to the slot's
\* tag and to the index of its set
NamesItsLine(c, index, b) ==
    ArithTag(c, b.address) = b.tag /\ ArithIndex(c, b.address) = index

\* C18: in every state, the address stored in every valid slot of L1 and L2 is an
\* address of the line resident in that slot.
C18_StoredAddressNamesLine ==
    \A c \in PresentLevels : \A i \in DOMAIN c.cache : \A w \in Ways(c) :
        c.cache[i][w].valid => NamesItsLine(c, i, c.cache[i][w])


\* the recency values of the slots of a set are exactly 0 .. A-1, each once
RanksArePermutation(set) ==
    /\ {set[i].lru : i \in DOMAIN set} = DOMAIN set
    /\ \A i, j \in DOMAIN set : set[i].lru = set[j].lru => i = j

\* C19: in every state, and after every single Cache call of a line, the recency
\* values of all slots of every set of every present level, valid or not, are
\* pairwise distinct and are exactly 0 .. A-1.
C19_RanksArePermutation ==
    /\ \A set \in AllSets : RanksArePermutation(set)
    /\ \A k \in DOMAIN calls : RanksArePermutation(calls[k].after)

\* a full 3-way set whose slots have all been touched, after an eviction and install
C19_Witness ==
    /\ l1.assoc = 3
    /\ CallsOf("L1", "evict") # {}
    /\ \E k \in CallsOf("L1", "install") : calls[k].after[0].lru # 0


\* the misses and write-backs of the level next to main memory
LastLevelTraffic(st) ==
    IF l2_present(l2)
    THEN st.l2_read_misses + st.l2_write_misses + st.l2_write_backs
    ELSE st.l1_read_misses + st.l1_write_misses + st.l1_write_backs

\* C20: after every line processed without error, total_memory_traffic equals
\* the read misses, write misses and write-backs of the last present level:
\* those of L1 when there is no L2, those of L2 when there is one.
C20_MemoryTrafficIdentity ==
    panic = NoPanic => stats.total_memory_traffic = LastLevelTraffic(stats)

\* with an L2: a write-back that missed in L2 and a dirty block evicted from L2
C20_Witness ==
    /\ panic = NoPanic
    /\ l2_present(l2)
    /\ stats.l2_write_misses > 0
    /\ stats.l2_write_backs > 0


\* the calls of the last line made on the level of call k after it
LaterOnLevel(k) == {j \in DOMAIN calls : j > k /\ calls[j].lvl = calls[k].lvl}

\* the eviction k of the last line is followed on its level, before any other call
\* there, by an install into the same set that fills the slot the victim left
EvictThenInstall(k) ==
    /\ LaterOnLevel(k) # {}
    /\ LET n == calls[SetMin(LaterOnLevel(k))]
       IN  /\ n.op = "install"
           /\ n.index = calls[k].index
           /\ n.way = calls[k].way
           /\ n.panic = NoPanic
           /\ IsFull(n.after)

C21_State ==
    \A k \in DOMAIN calls : calls[k].op = "evict" => EvictThenInstall(k)

\* every set full before a line is full after it
C21_Step ==
    /\ \A i \in DOMAIN l1.cache : IsFull(l1.cache[i]) => IsFull(l1'.cache[i])
    /\ \A i \in DOMAIN l2.cache : IsFull(l2.cache[i]) => IsFull(l2'.cache[i])

\* C21: a set of L1 or L2 that is full between two lines is full after every later
\* line, and every eviction of a line is followed on its level, before any other
\* call there, by an install into the same set, into the slot the victim left.
C21_FullSetStaysFull == []C21_State /\ [][C21_Step]_vars

\* the last line evicted from a full set of L1 and of L2, and both sets are full again
C21_Witness ==
    /\ panic = NoPanic
    /\ \E k \in CallsOf("L1", "evict") : IsFull(l1.cache[calls[k].index])
    /\ \E k \in CallsOf("L2", "evict") : IsFull(l2.cache[calls[k].index])


\* the L2 installs of the last line made for a write-back that missed in L2: the
\* write miss, an eviction when the set was full, then the install of the same tag
WriteBackMissInstalls ==
    {k \in CallsOf("L2", "install") :
        \E j \in CallsOf("L2", "write") :
            /\ ~calls[j].hit
            /\ calls[j].index = calls[k].index
            /\ calls[j].tag = calls[k].tag
            /\ \/ k = j + 1
               \/ k = j + 2 /\ calls[j + 1].op = "evict" /\ calls[j + 1].lvl = "L2"}

\* the L2 evictions of the last line whose victim is the slot install k filled,
\* with no write hit on that slot in between
EvictionsOfInstalled(k) ==
    {e \in CallsOf("L2", "evict") :
        /\ e > k
        /\ calls[e].index = calls[k].index
        /\ calls[e].way = calls[k].way
        /\ \A j \in (k + 1)..(e - 1) :
              ~(calls[j].lvl = "L2" /\ calls[j].op = "write" /\ calls[j].hit
                /\ calls[j].index = calls[k].index /\ calls[j].way = calls[k].way)}

\* C22: the L2 slot installed after the write-back of a dirty L1 victim missed in
\* L2 is valid and not dirty right after the install; an eviction of that slot
\* reports a clean victim; and an L2 eviction of a clean victim adds nothing to
\* l2_write_backs or total_memory_traffic, one of a dirty victim adds one to each.
C22_WriteBackMissInstallsClean ==
    /\ \A k \in WriteBackMissInstalls :
          /\ calls[k].after[calls[k].way].valid
          /\ ~calls[k].after[calls[k].way].dirty
          /\ calls[k].after[calls[k].way].tag = calls[k].tag
          /\ \A e \in EvictionsOfInstalled(k) : ~calls[e].dirty
    /\ \A e \in CallsOf("L2", "evict") :
          /\ calls[e].dirty = calls[e].before[calls[e].way].dirty
          /\ (e + 1) \in DOMAIN calls
          /\ calls[e + 1].mt = calls[e].mt + (IF calls[e].dirty THEN 1 ELSE 0)
    /\ panic = NoPanic =>
          stats.l2_write_backs - stats_pre.l2_write_backs =
              Cardinality({e \in CallsOf("L2", "evict") : calls[e].dirty})

\* a write-back missed in L2, its victim's tag was installed, and the same line
\* evicted that slot again without counting an L2 write-back
C22_Witness ==
    /\ panic = NoPanic
    /\ \E k \in WriteBackMissInstalls : EvictionsOfInstalled(k) # {}
    /\ stats.l1_write_backs > 0
    /\ stats.l2_write_backs = 0

====
